---------------------------- MODULE Spec2Model ----------------------------
(***************************************************************************)
(* A model of harvest.py: the harvest of a NERC vocabulary collection from *)
(* a SPARQL endpoint into the SQLite store translations.db.                *)
(*                                                                         *)
(* Spec       the command line program (main), run after run against the   *)
(*            same remote dataset and the same store file.                 *)
(* SpecFetch  direct calls of query_sparql_endpoint, with any max_retries   *)
(*            and base_delay, and of get_member_count.                     *)
(* SpecAll    both.                                                        *)
(* SpecInsert direct calls of insert_results with any page of records.     *)
(* SpecLive   one run of main, or direct calls of query_sparql_endpoint,    *)
(*            with the fairness of a process that keeps running.           *)
(***************************************************************************)
EXTENDS Integers, Sequences, FiniteSets, TLC

(***************************************************************************)
(* Bounds of the exploration.                                              *)
(***************************************************************************)
\* batch_size is 1000 in main (line 405), the same in every run; the
\* explored programs have a batch_size of 1..MaxBatch, so that a collection
\* of a few members spans several pages.
MaxBatch == 2
\* The member concepts of a collection are drawn from 1..MaxConcepts.
MaxConcepts == 3
\* A remote dataset holds at most MaxFacts label facts.
MaxFacts == 2
\* Invocations of the program against the same store file.
MaxRuns == 2
\* SpecFetch: max_retries is drawn from 1..MaxRetries and base_delay from
\* 1..MaxBaseDelay.
MaxRetries == 4
MaxBaseDelay == 2
\* SpecInsert: insert_results is called for at most MaxPages pages.
MaxPages == 2

(***************************************************************************)
(* Program constants.                                                      *)
(***************************************************************************)
\* query_sparql_endpoint(..., max_retries=3, base_delay=1)
DefaultMaxRetries == 3
DefaultBaseDelay == 1
\* e.code == 502
ProxyError == 502

\* A text is the sequence of its characters.
HostSub == <<"v","o","c","a","b",".","n","e","r","c",".","a","c",".","u","k">>
NercUri == <<"h","t","t","p",":","/","/","v","o","c","a","b",".","n","e","r","c",".","a","c",".","u","k","/","c","o","l","l","e","c","t","i","o","n","/","P","0","7","/","c","u","r","r","e","n","t","/">>
FtpUri == <<"f","t","p",":","/","/","e","x","a","m","p","l","e",".","o","r","g","/","x">>
ForeignUri == <<"h","t","t","p","s",":","/","/","e","x","a","m","p","l","e",".","o","r","g","/","f","o","o">>
FtpNercUri == <<"f","t","p",":","/","/","v","o","c","a","b",".","n","e","r","c",".","a","c",".","u","k","/">>
EmbeddedUri == <<"x","h","t","t","p",":","/","/","v","o","c","a","b",".","n","e","r","c",".","a","c",".","u","k","/">>
OneSlashUri == <<"h","t","t","p",":","/","v","o","c","a","b",".","n","e","r","c",".","a","c",".","u","k","/">>
UpperUri == <<"H","T","T","P",":","/","/","v","o","c","a","b",".","n","e","r","c",".","a","c",".","u","k","/">>
BareSchemeUri == <<"h","t","t","p","s",":","/","/">>
DoubleSUri == <<"h","t","t","p","s","s",":","/","/","a">>
EmptyUri == <<>>

\* The collection identifiers given on the command line (sys.argv[1]).
Uris ==
  { NercUri, FtpUri, ForeignUri, FtpNercUri, EmbeddedUri, OneSlashUri,
    UpperUri, BareSchemeUri, DoubleSUri, EmptyUri }

(***************************************************************************)
(* validate_collection_uri                                                 *)
(***************************************************************************)
\* The pattern r"^https?://": one item per character, "s" optional.
UriPattern ==
  << [ch |-> "h", opt |-> FALSE], [ch |-> "t", opt |-> FALSE],
     [ch |-> "t", opt |-> FALSE], [ch |-> "p", opt |-> FALSE],
     [ch |-> "s", opt |-> TRUE],  [ch |-> ":", opt |-> FALSE],
     [ch |-> "/", opt |-> FALSE], [ch |-> "/", opt |-> FALSE] >>

\* Whether items i.. of the pattern match text s from position j on.
RECURSIVE MatchFrom(_, _, _, _)
MatchFrom(pat, i, s, j) ==
  IF i > Len(pat) THEN TRUE
  ELSE LET eat == j <= Len(s) /\ s[j] = pat[i].ch /\ MatchFrom(pat, i + 1, s, j + 1)
       IN  IF pat[i].opt THEN eat \/ MatchFrom(pat, i + 1, s, j) ELSE eat

\* re.search: a match at any position (not what the code calls).
ReSearch(pat, s) == \E j \in 1..(Len(s) + 1) : MatchFrom(pat, 1, s, j)

\* re.match: a match at the beginning of the text.
ReMatch(pat, s) == MatchFrom(pat, 1, s, 1)

\* sub in s
Contains(s, sub) ==
  \E i \in 1..(Len(s) - Len(sub) + 1) : SubSeq(s, i, i + Len(sub) - 1) = sub

\* A validation that warns about any identifier it does not like and
\* rejects none (not the code's).
validate_leniently(u) ==
  [ok |-> TRUE, warn |-> ~ReMatch(UriPattern, u) \/ ~Contains(u, HostSub)]

\* ok: the function returns True; ~ok: it raises ValueError. warn: it prints
\* the warning about the host.
validate_collection_uri(u) ==
  IF ~ReMatch(UriPattern, u)
  THEN [ok |-> FALSE, warn |-> FALSE]
  ELSE [ok |-> TRUE, warn |-> ~Contains(u, HostSub)]

(***************************************************************************)
(* The remote dataset and the endpoint's answers.                          *)
(***************************************************************************)
\* Concept identifiers, in the order ORDER BY ?concept gives them.
ConceptUris == <<"c1", "c2", "c3", "c4", "c5">>
ConceptUri(c) == ConceptUris[c]
Concepts == 1..MaxConcepts

\* Literal values, in the order the endpoint lists the rows of one concept.
ValueOrder == <<"x", "y">>
Values == {ValueOrder[i] : i \in 1..Len(ValueOrder)}
\* The attributes the datasets explored give values for.
DatasetFields == {"prefLabel", "altLabel"}

\* The concepts the datasets explored give labels to.
LabelledConcepts == {1, 2}

\* A dataset: the members of the collection and the label facts of the
\* members, each fact a (concept, attribute, value) triple. The datasets
\* explored: any collection of unlabelled concepts, and any collection of
\* the labelled concepts with up to MaxFacts facts.
FactsOf(members) ==
  [concept : members, field : DatasetFields, value : Values]
Datasets ==
  { [members |-> m, facts |-> {}] : m \in SUBSET Concepts }
  \cup
  UNION { { [members |-> m, facts |-> f] :
              f \in {g \in SUBSET FactsOf(m) : Cardinality(g) <= MaxFacts} } :
          m \in SUBSET (LabelledConcepts \cap Concepts) }
EmptyDataset == [members |-> {}, facts |-> {}]

\* The value of a variable the OPTIONAL pattern left unbound.
Unbound == "<unbound>"
\* None, as dict.get returns it.
None == "<None>"

\* The values OPTIONAL { ?concept field ?v } binds ?v to, in order: every
\* value of the concept, or unbound once when it has none.
Opts(ds, c, fld) ==
  LET vs == SelectSeq(ValueOrder,
              LAMBDA v : [concept |-> c, field |-> fld, value |-> v] \in ds.facts)
  IN  IF vs = <<>> THEN <<Unbound>> ELSE vs

\* One binding of the result: the bound variables only, each with its value.
Row(c, p, a, d) ==
  LET vals == [concept |-> ConceptUri(c), prefLabel |-> p,
               altLabel |-> a, definition |-> d]
      dom  == {k \in {"concept", "prefLabel", "altLabel", "definition"} :
                 vals[k] # Unbound}
  IN  [k \in dom |-> vals[k]]

\* The rows of one concept: every combination of its prefLabel, altLabel and
\* definition bindings (SELECT DISTINCT over the three OPTIONAL patterns).
ConceptRows(ds, c) ==
  LET ps == Opts(ds, c, "prefLabel")
      as == Opts(ds, c, "altLabel")
      dd == Opts(ds, c, "definition")
      n  == Len(ps) * Len(as) * Len(dd)
  IN  [i \in 1..n |->
         Row(c, ps[((i - 1) \div (Len(as) * Len(dd))) + 1],
                as[(((i - 1) \div Len(dd)) % Len(as)) + 1],
                dd[((i - 1) % Len(dd)) + 1])]

\* create_sparql_query without LIMIT and OFFSET, evaluated: the rows of the
\* member concepts, ORDER BY ?concept.
RECURSIVE RowsFrom(_, _)
RowsFrom(ds, c) ==
  IF c > MaxConcepts THEN <<>>
  ELSE (IF c \in ds.members THEN ConceptRows(ds, c) ELSE <<>>) \o RowsFrom(ds, c + 1)
AllRows(ds) == RowsFrom(ds, 1)

Min(a, b) == IF a <= b THEN a ELSE b

\* The page query evaluated: LIMIT limit OFFSET offset of the ordered rows.
PageRows(ds, limit, offset) ==
  SubSeq(AllRows(ds), offset + 1, Min(offset + limit, Len(AllRows(ds))))

\* SELECT (COUNT(DISTINCT ?concept) AS ?count) evaluated.
MemberCount(ds) == Cardinality(ds.members)

(***************************************************************************)
(* The store: the tables of translations.db.                               *)
(***************************************************************************)
\* FIELD_MAPPINGS, in the order of the dict: SPARQL variable name ->
\* (field_uri, field_term).
FIELD_MAPPINGS ==
  << [name |-> "prefLabel",  field_uri |-> "http://www.w3.org/2004/02/skos/core#prefLabel",  field_term |-> "skos:prefLabel"],
     [name |-> "altLabel",   field_uri |-> "http://www.w3.org/2004/02/skos/core#altLabel",   field_term |-> "skos:altLabel"],
     [name |-> "definition", field_uri |-> "http://www.w3.org/2004/02/skos/core#definition", field_term |-> "skos:definition"],
     [name |-> "notation",   field_uri |-> "http://www.w3.org/2004/02/skos/core#notation",   field_term |-> "skos:notation"],
     [name |-> "broader",    field_uri |-> "http://www.w3.org/2004/02/skos/core#broader",    field_term |-> "skos:broader"],
     [name |-> "narrower",   field_uri |-> "http://www.w3.org/2004/02/skos/core#narrower",   field_term |-> "skos:narrower"],
     [name |-> "related",    field_uri |-> "http://www.w3.org/2004/02/skos/core#related",    field_term |-> "skos:related"] >>

\* The tables create_database creates, empty. seq_terms and seq_fields are
\* the AUTOINCREMENT counters of terms and term_fields.
EmptyDB ==
  [ terms |-> {}, term_fields |-> {}, translations |-> {}, appeals |-> {},
    appeal_messages |-> {}, users |-> {}, seq_terms |-> 0, seq_fields |-> 0 ]

\* A store the translation workflow has worked on: concept c1 with its
\* prefLabel "x", a translation of it, an appeal, a message and a user.
PopulatedDB ==
  [ terms |-> { [id |-> 1, uri |-> ConceptUri(1), created_at |-> 0, updated_at |-> 0] },
    term_fields |->
      { [id |-> 1, term_id |-> 1, field_uri |-> FIELD_MAPPINGS[1].field_uri,
         field_term |-> FIELD_MAPPINGS[1].field_term, original_value |-> "x",
         created_at |-> 0, updated_at |-> 0] },
    translations |->
      { [id |-> 1, term_field_id |-> 1, language |-> "nl", value |-> "x-nl",
         status |-> "approved", created_by |-> "alice"] },
    appeals |-> { [id |-> 1, translation_id |-> 1, opened_by |-> "bob", status |-> "open"] },
    appeal_messages |-> { [id |-> 1, appeal_id |-> 1, author |-> "bob", message |-> "m"] },
    users |-> { [username |-> "alice", reputation |-> 0] },
    seq_terms |-> 1, seq_fields |-> 1 ]

\* The store file before the first run: absent, or holding PopulatedDB.
InitialDisks ==
  { [exists |-> FALSE, db |-> EmptyDB], [exists |-> TRUE, db |-> PopulatedDB] }

\* A lookup that finds no row (not the code's).
TermsWithUriNotFound(db, uri) == {}

\* SELECT id FROM terms WHERE uri = ?
TermsWithUri(db, uri) == {t \in db.terms : t.uri = uri}

\* INSERT OR REPLACE INTO terms (uri) VALUES (?) (not what the code
\* executes): the row of the URI is deleted, and with it, by ON DELETE
\* CASCADE, its term_fields; then a row is inserted under a new id.
ReplaceTerm(db, uri, ts) ==
  LET gone == {t \in db.terms : t.uri = uri}
  IN  [db EXCEPT
         !.terms = (@ \ gone) \cup { [id |-> db.seq_terms + 1, uri |-> uri,
                                       created_at |-> ts, updated_at |-> ts] },
         !.term_fields = {f \in @ : \A t \in gone : f.term_id # t.id},
         !.seq_terms = @ + 1]

\* UPDATE terms SET updated_at = CURRENT_TIMESTAMP WHERE uri = ?
UpdateTerm(db, uri, ts) ==
  [db EXCEPT !.terms =
     {IF t.uri = uri THEN [t EXCEPT !.updated_at = ts] ELSE t : t \in db.terms}]

\* INSERT INTO terms (uri) VALUES (?)
InsertTerm(db, uri, ts) ==
  [db EXCEPT
     !.terms = @ \cup { [id |-> db.seq_terms + 1, uri |-> uri,
                         created_at |-> ts, updated_at |-> ts] },
     !.seq_terms = @ + 1]

\* The rows that a constraint UNIQUE(term_id, field_uri), one value for
\* each field of a term, would set against a new row (not the code's).
ConflictingAnyValue(db, term_id, field_uri, value) ==
  {f \in db.term_fields : f.term_id = term_id /\ f.field_uri = field_uri}

\* The rows of term_fields that UNIQUE(term_id, field_uri, original_value)
\* sets against a new row.
Conflicting(db, term_id, field_uri, value) ==
  {f \in db.term_fields :
     f.term_id = term_id /\ f.field_uri = field_uri /\ f.original_value = value}

NewTermField(db, term_id, fm, value, ts) ==
  [id |-> db.seq_fields + 1, term_id |-> term_id, field_uri |-> fm.field_uri,
   field_term |-> fm.field_term, original_value |-> value,
   created_at |-> ts, updated_at |-> ts]

\* INSERT OR REPLACE (not what the code executes): the conflicting rows are
\* deleted, and with them, by ON DELETE CASCADE, their translations, the
\* appeals of those and the messages of those; then the row is inserted.
InsertOrReplaceTermField(db, term_id, fm, value, ts) ==
  LET gone  == Conflicting(db, term_id, fm.field_uri, value)
      goneT == {t \in db.translations : \E f \in gone : t.term_field_id = f.id}
      goneA == {a \in db.appeals : \E t \in goneT : a.translation_id = t.id}
      goneM == {m \in db.appeal_messages : \E a \in goneA : m.appeal_id = a.id}
  IN  [db |-> [db EXCEPT
                 !.term_fields = (@ \ gone) \cup {NewTermField(db, term_id, fm, value, ts)},
                 !.translations = @ \ goneT,
                 !.appeals = @ \ goneA,
                 !.appeal_messages = @ \ goneM,
                 !.seq_fields = @ + 1],
       rowcount |-> 1]

\* The insert into a term_fields table created without its UNIQUE
\* constraint (not the code's schema): no row conflicts, every row is added.
InsertTermFieldNoUnique(db, term_id, fm, value, ts) ==
  [db |-> [db EXCEPT
             !.term_fields = @ \cup {NewTermField(db, term_id, fm, value, ts)},
             !.seq_fields = @ + 1],
   rowcount |-> 1]

\* INSERT OR IGNORE INTO term_fields (term_id, field_uri, field_term,
\* original_value) VALUES (?, ?, ?, ?), with cursor.rowcount.
InsertOrIgnoreTermField(db, term_id, fm, value, ts) ==
  IF Conflicting(db, term_id, fm.field_uri, value) # {}
  THEN [db |-> db, rowcount |-> 0]
  ELSE [db |-> [db EXCEPT
                  !.term_fields = @ \cup {NewTermField(db, term_id, fm, value, ts)},
                  !.seq_fields = @ + 1],
        rowcount |-> 1]

(***************************************************************************)
(* insert_results                                                          *)
(***************************************************************************)
\* binding.get(name, {}).get("value", default)
BindingValue(binding, name, default) ==
  IF name \in DOMAIN binding THEN binding[name] ELSE default

\* if field_value:
Truthy(v) == v # None /\ v # ""

\* The state of the loop over the bindings before the first one.
LoopStart(db) ==
  [db |-> db, terms_processed |-> {}, terms_inserted |-> 0,
   terms_updated |-> 0, term_fields_inserted |-> 0]

\* The loop over FIELD_MAPPINGS for one binding, from entry i on.
RECURSIVE InsertFields(_, _, _, _, _)
InsertFields(st, term_id, binding, i, ts) ==
  IF i > Len(FIELD_MAPPINGS) THEN st
  ELSE LET fm == FIELD_MAPPINGS[i]
           field_value == BindingValue(binding, fm.name, None)
       IN  IF Truthy(field_value)
           THEN LET r == InsertOrIgnoreTermField(st.db, term_id, fm, field_value, ts)
                IN  InsertFields(
                      [st EXCEPT !.db = r.db,
                                 !.term_fields_inserted =
                                    IF r.rowcount > 0 THEN @ + 1 ELSE @],
                      term_id, binding, i + 1, ts)
           ELSE InsertFields(st, term_id, binding, i + 1, ts)

\* The body of the loop without the terms_processed set: a Term is looked
\* up, and counted, at every record of it (not the code's).
ProcessBindingRecounting(st, binding, ts) ==
  LET concept_uri == BindingValue(binding, "concept", "")
  IN  IF concept_uri = "" THEN st
      ELSE LET st1 ==
                 IF TermsWithUri(st.db, concept_uri) # {}
                 THEN [st EXCEPT !.db = UpdateTerm(st.db, concept_uri, ts),
                                 !.terms_updated = @ + 1]
                 ELSE [st EXCEPT !.db = InsertTerm(st.db, concept_uri, ts),
                                 !.terms_inserted = @ + 1]
               term_rows == TermsWithUri(st1.db, concept_uri)
           IN  IF term_rows = {} THEN st1
               ELSE InsertFields(st1, (CHOOSE t \in term_rows : TRUE).id,
                                 binding, 1, ts)

\* The body of the loop without "if not concept_uri: continue": a record
\* without an identifier is reconciled as the concept "" (not the code's).
ProcessBindingUnguarded(st, binding, ts) ==
  LET concept_uri == BindingValue(binding, "concept", "")
      st1 ==
        IF concept_uri \notin st.terms_processed
        THEN IF TermsWithUri(st.db, concept_uri) # {}
             THEN [st EXCEPT !.db = UpdateTerm(st.db, concept_uri, ts),
                             !.terms_updated = @ + 1,
                             !.terms_processed = @ \cup {concept_uri}]
             ELSE [st EXCEPT !.db = InsertTerm(st.db, concept_uri, ts),
                             !.terms_inserted = @ + 1,
                             !.terms_processed = @ \cup {concept_uri}]
        ELSE st
      term_rows == TermsWithUri(st1.db, concept_uri)
  IN  IF term_rows = {} THEN st1
      ELSE InsertFields(st1, (CHOOSE t \in term_rows : TRUE).id, binding, 1, ts)

\* The body of the loop for one binding.
ProcessBinding(st, binding, ts) ==
  LET concept_uri == BindingValue(binding, "concept", "")
  IN  IF concept_uri = "" THEN st
      ELSE LET st1 ==
                 IF concept_uri \notin st.terms_processed
                 THEN IF TermsWithUri(st.db, concept_uri) # {}
                      THEN [st EXCEPT !.db = UpdateTerm(st.db, concept_uri, ts),
                                      !.terms_updated = @ + 1,
                                      !.terms_processed = @ \cup {concept_uri}]
                      ELSE [st EXCEPT !.db = InsertTerm(st.db, concept_uri, ts),
                                      !.terms_inserted = @ + 1,
                                      !.terms_processed = @ \cup {concept_uri}]
                 ELSE st
               term_rows == TermsWithUri(st1.db, concept_uri)
           IN  IF term_rows = {} THEN st1
               ELSE InsertFields(st1, (CHOOSE t \in term_rows : TRUE).id,
                                 binding, 1, ts)

\* The loop over the first n bindings.
RECURSIVE ProcessBindings(_, _, _, _)
ProcessBindings(db, bindings, n, ts) ==
  IF n = 0 THEN LoopStart(db)
  ELSE ProcessBinding(ProcessBindings(db, bindings, n - 1, ts), bindings[n], ts)

\* What a run of insert_results leaves when it is not interrupted: the store
\* it commits and the three counts it prints.
InsertResultsAll(db, bindings, ts) ==
  ProcessBindings(db, bindings, Len(bindings), ts)

(***************************************************************************)
(* query_sparql_endpoint: the retry policy                                 *)
(***************************************************************************)
RECURSIVE Pow2(_)
Pow2(n) == IF n = 0 THEN 1 ELSE 2 * Pow2(n - 1)

\* What one sparql.query().convert() ends with: the result, an HTTPError
\* with its code, or another exception (connection failure, malformed query).
Outcomes ==
  { [kind |-> "ok", code |-> 200],
    [kind |-> "HTTPError", code |-> ProxyError],
    [kind |-> "HTTPError", code |-> 503],
    [kind |-> "Exception", code |-> 0] }

\* A delay that grows by base_delay with every attempt (not the code's).
LinearDelay(base, att) == base * (att + 1)

\* delay = base_delay * (2**attempt)
BackoffDelay(base, att) == base * Pow2(att)

\* A retry after the last attempt too (not the code's).
ShouldRetryToTheEnd(o, att, retries) ==
  o.kind = "HTTPError" /\ o.code = ProxyError /\ att < retries

\* A budget one attempt short (not the code's).
ShouldRetryShort(o, att, retries) ==
  o.kind = "HTTPError" /\ o.code = ProxyError /\ att < retries - 2

\* Every HTTPError retried (not the code's).
ShouldRetryAnyHttp(o, att, retries) ==
  o.kind = "HTTPError" /\ att < retries - 1

\* except HTTPError as e: if e.code == 502 and attempt < max_retries - 1
ShouldRetry(o, att, retries) ==
  o.kind = "HTTPError" /\ o.code = ProxyError /\ att < retries - 1

(***************************************************************************)
(* The state                                                               *)
(***************************************************************************)
VARIABLES
  collection_uri,  \* sys.argv[1], or the argument of a direct call
  dataset,         \* what the endpoint holds for the collection
  disk,            \* translations.db as committed: [exists, db]
  conn,            \* the connection: [open, db], db with its uncommitted writes
  pc,              \* where the program is
  caller,          \* "main", or "direct" for a call from outside main
  run,             \* the number of this invocation, or of this direct call
  now,             \* CURRENT_TIMESTAMP
  batch_size, member_count, offset, results,
  query,           \* limit and offset of the current query_sparql_endpoint call
  max_retries, base_delay, attempt,
  outcomes,        \* how each attempt of the current query_sparql_endpoint call ended
  sleeps,          \* the time.sleep(delay) calls of that call
  fetched,         \* the (limit, offset) of each query_sparql_endpoint call
  count_queries,   \* count queries sent in this run
  count_response,  \* what the endpoint answered to the count query
  validations,     \* calls of validate_collection_uri in this run
  warnings,        \* host warnings printed in this run
  summaries,       \* the "Harvest summary" counts printed, one per page
  error,           \* the exception that ended the run or the call
  exit_code,       \* -1 while the process runs
  signal,          \* database-path written to GITHUB_OUTPUT
  prevSleeps,      \* direct calls: the number of sleeps of the call before
  disk0,           \* the store file before the first run
  runStartDisk,    \* the store file when this run began
  prevDone,        \* the run before this one ended Done
  prevDisk         \* the store file as the run, or the call, before left it

vars ==
  << collection_uri, dataset, disk, conn, pc, caller, run, now, batch_size,
     member_count, offset, results, query, max_retries, base_delay, attempt,
     outcomes, sleeps, fetched, count_queries, count_response, validations,
     warnings, summaries, error, exit_code, signal, prevSleeps, disk0, runStartDisk,
     prevDone, prevDisk >>

remoteVars == << collection_uri, dataset >>
fetchVars == << query, max_retries, base_delay, attempt, outcomes, sleeps >>
ghostVars == << disk0, runStartDisk, prevDone, prevDisk >>

NoResults == [ok |-> FALSE, bindings |-> <<>>]
NoQuery == [limit |-> 0, offset |-> 0]
Closed == [open |-> FALSE, db |-> EmptyDB]

\* "GITHUB_OUTPUT" in os.environ: the program runs as a GitHub action.
GithubOutputSet == TRUE

\* The variables of one invocation, as the process starts.
RunStart ==
  /\ pc' = "Validating"
  /\ caller' = "main"
  /\ conn' = Closed
  /\ member_count' = 0
  /\ offset' = 0
  /\ results' = NoResults
  /\ query' = NoQuery
  /\ max_retries' = DefaultMaxRetries
  /\ base_delay' = DefaultBaseDelay
  /\ attempt' = 0
  /\ outcomes' = <<>>
  /\ sleeps' = <<>>
  /\ fetched' = <<>>
  /\ count_queries' = 0
  /\ count_response' = "none"
  /\ validations' = 0
  /\ warnings' = 0
  /\ summaries' = <<>>
  /\ error' = "none"
  /\ exit_code' = -1
  /\ signal' = FALSE
  /\ prevSleeps' = 0

Init ==
  /\ collection_uri \in Uris
  /\ dataset \in (IF collection_uri = NercUri THEN Datasets ELSE {EmptyDataset})
  /\ disk \in InitialDisks
  /\ batch_size \in 1..MaxBatch
  /\ pc = "Validating"
  /\ caller = "main"
  /\ run = 1
  /\ now = 1
  /\ conn = Closed
  /\ member_count = 0
  /\ offset = 0
  /\ results = NoResults
  /\ query = NoQuery
  /\ max_retries = DefaultMaxRetries
  /\ base_delay = DefaultBaseDelay
  /\ attempt = 0
  /\ outcomes = <<>>
  /\ sleeps = <<>>
  /\ fetched = <<>>
  /\ count_queries = 0
  /\ count_response = "none"
  /\ validations = 0
  /\ warnings = 0
  /\ summaries = <<>>
  /\ error = "none"
  /\ exit_code = -1
  /\ signal = FALSE
  /\ prevSleeps = 0
  /\ disk0 = disk
  /\ runStartDisk = disk
  /\ prevDone = FALSE
  /\ prevDisk = disk

\* An exception that main prints and leaves behind, going on with its loop
\* (not the code's).
RaiseAndGoOn(kind) ==
  /\ error' = kind
  /\ pc' = IF caller = "main" THEN "Paging" ELSE "Raised"
  /\ exit_code' = exit_code

\* An exception reaches the caller: main prints it and exits with 1, a
\* direct caller sees it raised.
Raise(kind) ==
  /\ error' = kind
  /\ pc' = IF caller = "main" THEN "Failed" ELSE "Raised"
  /\ exit_code' = IF caller = "main" THEN 1 ELSE exit_code

\* validate_collection_uri called once more.
Validated(v) ==
  /\ validations' = validations + 1
  /\ warnings' = warnings + (IF v.warn THEN 1 ELSE 0)

(***************************************************************************)
(* main, step by step                                                      *)
(***************************************************************************)
\* validate_collection_uri(collection_uri) in main.
Validate ==
  /\ pc = "Validating"
  /\ LET v == validate_collection_uri(collection_uri)
     IN  /\ Validated(v)
         /\ IF v.ok
            THEN pc' = "Counting" /\ UNCHANGED << error, exit_code >>
            ELSE Raise("ValueError")
  /\ UNCHANGED << remoteVars, disk, conn, caller, run, now, batch_size,
                  member_count, offset, results, fetchVars, fetched,
                  count_queries, count_response, summaries, signal, prevSleeps, ghostVars >>

\* What the endpoint answers to the count query: the count, a result without
\* bindings, a first binding without "count", or a failed request.
CountResponses ==
  {"count", "no bindings", "no count", "HTTPError 502", "Exception"}

\* A function that takes a result without the count for a count of 0 (not
\* the code's).
CountResultLenient(resp, ds) ==
  IF resp = "count" THEN [ok |-> TRUE, value |-> MemberCount(ds)]
  ELSE IF resp \in {"no bindings", "no count"} THEN [ok |-> TRUE, value |-> 0]
  ELSE [ok |-> FALSE, value |-> 0]

\* What get_member_count makes of the response: the count returned, or, for
\* a failed request, a result without bindings and a first binding without
\* "count", an Exception (lines 106-113).
CountResult(resp, ds) ==
  IF resp = "count" THEN [ok |-> TRUE, value |-> MemberCount(ds)]
  ELSE [ok |-> FALSE, value |-> 0]

\* get_member_count(collection_uri), called by main or directly: the
\* identifier is validated, the query is sent once, and everything but a
\* count ends in Exception. A direct call counts its own validations and
\* queries, and what the call before it left is gone.
GetMemberCount ==
  /\ \/ caller = "main" /\ pc = "Counting"
     \/ caller = "direct" /\ pc \in {"Idle", "Returned", "Raised"}
  /\ LET v == validate_collection_uri(collection_uri)
         direct == caller = "direct"
     IN  /\ validations' = (IF direct THEN 0 ELSE validations) + 1
         /\ warnings' = (IF direct THEN 0 ELSE warnings) + (IF v.warn THEN 1 ELSE 0)
         /\ IF ~v.ok
            THEN /\ Raise("ValueError")
                 /\ count_queries' = (IF direct THEN 0 ELSE count_queries)
                 /\ count_response' = "none"
                 /\ UNCHANGED member_count
            ELSE /\ count_queries' = (IF direct THEN 0 ELSE count_queries) + 1
                 /\ \E resp \in CountResponses :
                      LET r == CountResult(resp, dataset)
                      IN  /\ count_response' = resp
                          /\ IF r.ok
                             THEN /\ member_count' = r.value
                                  /\ pc' = IF direct THEN "Returned" ELSE "CreatingDb"
                                  /\ error' = "none"
                                  /\ UNCHANGED exit_code
                             ELSE /\ Raise("Exception")
                                  /\ UNCHANGED member_count
  /\ results' = NoResults
  /\ attempt' = 0
  /\ outcomes' = <<>>
  /\ sleeps' = <<>>
  /\ UNCHANGED << remoteVars, disk, conn, caller, run, now, batch_size, offset,
                  query, max_retries, base_delay, fetched, summaries, signal,
                  prevSleeps, ghostVars >>

\* create_database(output_path): the file is opened, or created with empty
\* tables; or sqlite3 fails.
CreateDatabase ==
  /\ pc = "CreatingDb"
  /\ \/ /\ disk' = [exists |-> TRUE, db |-> IF disk.exists THEN disk.db ELSE EmptyDB]
        /\ conn' = [open |-> TRUE, db |-> disk'.db]
        /\ pc' = "Paging"
        /\ offset' = 0
        /\ UNCHANGED << error, exit_code >>
     \/ /\ Raise("sqlite3.Error")
        /\ UNCHANGED << disk, conn, offset >>
  /\ UNCHANGED << remoteVars, caller, run, now, batch_size, member_count,
                  results, fetchVars, fetched, count_queries, count_response, validations,
                  warnings, summaries, signal, prevSleeps, ghostVars >>

\* range(0, member_count, batch_size) with a step one too long (not the
\* code's).
NextOffsetSkipping(off, step) == off + step + 1

\* range(0, member_count, batch_size): the offset after off.
NextOffset(off, step) == off + step

\* for offset in range(0, member_count, batch_size): the next offset, and
\* query_sparql_endpoint up to its loop: the query text is built, which
\* validates the identifier.
NextPage ==
  /\ pc = "Paging"
  /\ offset < member_count
  /\ LET v == validate_collection_uri(collection_uri)
     IN  /\ Validated(v)
         /\ IF ~v.ok
            THEN Raise("ValueError") /\ UNCHANGED fetched
            ELSE /\ pc' = "Fetching"
                 /\ fetched' = Append(fetched, [limit |-> batch_size, offset |-> offset])
                 /\ UNCHANGED << error, exit_code >>
  /\ query' = [limit |-> batch_size, offset |-> offset]
  /\ max_retries' = DefaultMaxRetries
  /\ base_delay' = DefaultBaseDelay
  /\ attempt' = 0
  /\ outcomes' = <<>>
  /\ sleeps' = <<>>
  /\ UNCHANGED << remoteVars, disk, conn, caller, run, now, batch_size,
                  member_count, offset, results, count_queries, count_response, summaries,
                  signal, prevSleeps, ghostVars >>

\* One pass of "for attempt in range(max_retries)": the request and what
\* follows it; and, were the range used up, the end of the function, which
\* returns None.
FetchAttempt ==
  /\ pc = "Fetching"
  /\ IF attempt >= max_retries
     THEN /\ results' = NoResults
          /\ pc' = IF caller = "main" THEN "Reconciling" ELSE "Returned"
          /\ UNCHANGED << attempt, outcomes, sleeps, error, exit_code >>
     ELSE \E o \in Outcomes :
       /\ outcomes' = Append(outcomes, o)
       /\ IF o.kind = "ok"
          THEN /\ results' =
                    [ok |-> TRUE,
                     bindings |-> PageRows(dataset, query.limit, query.offset)]
               /\ pc' = IF caller = "main" THEN "Reconciling" ELSE "Returned"
               /\ UNCHANGED << attempt, sleeps, error, exit_code >>
          ELSE IF ShouldRetry(o, attempt, max_retries)
          THEN /\ sleeps' = Append(sleeps, BackoffDelay(base_delay, attempt))
               /\ attempt' = attempt + 1
               /\ UNCHANGED << pc, results, error, exit_code >>
          ELSE /\ Raise("Exception")
               /\ UNCHANGED << attempt, sleeps, results >>
  /\ UNCHANGED << remoteVars, disk, conn, caller, run, now, batch_size,
                  member_count, offset, query, max_retries, base_delay,
                  fetched, count_queries, count_response, validations, warnings, summaries, signal,
                  prevSleeps, ghostVars >>

\* What the store file holds after insert_results was interrupted, had the
\* writes made so far been flushed (not what happens).
DiskAfterInterruptFlushed(committed, partial) == [exists |-> TRUE, db |-> partial]

\* What the store file holds after insert_results was interrupted: the
\* writes of the page are committed by the one conn.commit() after the loop,
\* and main exits on the error without committing.
DiskAfterInterrupt(committed, partial) == committed

\* The end of insert_results without its commit (not the code's): the
\* writes of the page stay in the connection.
CommitMissing(committed, view) == committed

\* conn.commit(): the store file holds what the connection sees.
Commit(committed, view) == [exists |-> TRUE, db |-> view]

\* The counts insert_results prints.
Summary(st) ==
  [terms_inserted |-> st.terms_inserted, terms_updated |-> st.terms_updated,
   term_fields_inserted |-> st.term_fields_inserted]

\* insert_results(conn, collection_uri, results), called by main or
\* directly: the page is reconciled and committed; or sqlite3 fails at a
\* binding, or at the commit, after the writes of the first n bindings.
\* results.get fails on None, with an AttributeError.
InsertResults ==
  /\ pc = "Reconciling"
  /\ LET bindings == results.bindings
     IN  IF ~results.ok
         THEN Raise("Exception") /\ UNCHANGED << conn, disk, summaries, offset >>
         ELSE
         \/ LET st == InsertResultsAll(conn.db, bindings, now)
            IN  /\ conn' = [open |-> TRUE, db |-> st.db]
                /\ disk' = Commit(disk, st.db)
                /\ summaries' = Append(summaries, Summary(st))
                /\ offset' = IF caller = "main" THEN NextOffset(offset, batch_size) ELSE offset
                /\ pc' = IF caller = "main" THEN "Paging" ELSE "Returned"
                /\ UNCHANGED << error, exit_code >>
         \/ \E n \in 0..Len(bindings) :
              LET st == ProcessBindings(conn.db, bindings, n, now)
              IN  /\ conn' = [open |-> TRUE, db |-> st.db]
                  /\ disk' = DiskAfterInterrupt(disk, st.db)
                  /\ Raise("sqlite3.Error")
                  /\ UNCHANGED << summaries, offset >>
  /\ attempt' = 0
  /\ outcomes' = <<>>
  /\ sleeps' = <<>>
  /\ UNCHANGED << remoteVars, caller, run, now, batch_size, member_count,
                  results, query, max_retries, base_delay, fetched, count_queries, count_response,
                  validations, warnings, signal, prevSleeps, ghostVars >>

\* The loop is over: conn.close(), the completion line, exit code 0.
Finish ==
  /\ pc = "Paging"
  /\ offset >= member_count
  /\ conn' = [conn EXCEPT !.open = FALSE]
  /\ signal' = GithubOutputSet
  /\ exit_code' = 0
  /\ pc' = "Done"
  /\ UNCHANGED << remoteVars, disk, caller, run, now, batch_size, member_count,
                  offset, results, fetchVars, fetched, count_queries, count_response,
                  validations, warnings, summaries, error, prevSleeps, ghostVars >>

\* The program is invoked again, later, on the same store file and the same
\* remote dataset.
StartRun ==
  /\ pc \in {"Done", "Failed"}
  /\ run < MaxRuns
  /\ run' = run + 1
  /\ now' = now + 1
  /\ RunStart
  /\ prevDone' = (pc = "Done")
  /\ prevDisk' = disk
  /\ runStartDisk' = disk
  /\ UNCHANGED << remoteVars, disk, batch_size, disk0 >>

Next ==
  \/ Validate
  \/ GetMemberCount
  \/ CreateDatabase
  \/ NextPage
  \/ FetchAttempt
  \/ InsertResults
  \/ Finish
  \/ StartRun

Spec == Init /\ [][Next]_vars

(***************************************************************************)
(* query_sparql_endpoint and get_member_count called directly, call after   *)
(* call                                                                    *)
(***************************************************************************)
\* The identifiers, and the dataset, of the direct calls; a caller asks for
\* pages of batch_size rows, the first or the second.
FetchUris == {NercUri, ForeignUri, FtpUri}
FetchDataset == [members |-> LabelledConcepts \cap Concepts, facts |-> {}]

InitFetch ==
  /\ collection_uri \in FetchUris
  /\ dataset = FetchDataset
  /\ disk = [exists |-> FALSE, db |-> EmptyDB]
  /\ batch_size \in 1..MaxBatch
  /\ pc = "Idle"
  /\ caller = "direct"
  /\ run = 1
  /\ now = 1
  /\ conn = Closed
  /\ member_count = 0
  /\ offset = 0
  /\ results = NoResults
  /\ query = NoQuery
  /\ max_retries = DefaultMaxRetries
  /\ base_delay = DefaultBaseDelay
  /\ attempt = 0
  /\ outcomes = <<>>
  /\ sleeps = <<>>
  /\ fetched = <<>>
  /\ count_queries = 0
  /\ count_response = "none"
  /\ validations = 0
  /\ warnings = 0
  /\ summaries = <<>>
  /\ error = "none"
  /\ exit_code = -1
  /\ signal = FALSE
  /\ prevSleeps = 0
  /\ disk0 = disk
  /\ runStartDisk = disk
  /\ prevDone = FALSE
  /\ prevDisk = disk

\* query_sparql_endpoint(collection_uri, limit, offset, max_retries,
\* base_delay) up to its loop: the query text is built, which validates the
\* identifier.
CallQuery ==
  /\ pc \in {"Idle", "Returned", "Raised"}
  /\ \E mr \in 1..MaxRetries, bd \in 1..MaxBaseDelay, off \in {0, batch_size} :
       /\ max_retries' = mr
       /\ base_delay' = bd
       /\ query' = [limit |-> batch_size, offset |-> off]
  /\ LET v == validate_collection_uri(collection_uri)
     IN  /\ validations' = 1
         /\ warnings' = IF v.warn THEN 1 ELSE 0
         /\ IF ~v.ok
            THEN error' = "ValueError" /\ pc' = "Raised"
            ELSE error' = "none" /\ pc' = "Fetching"
  /\ attempt' = 0
  /\ outcomes' = <<>>
  /\ sleeps' = <<>>
  /\ results' = NoResults
  /\ prevSleeps' = Len(sleeps)
  /\ count_queries' = 0
  /\ count_response' = "none"
  /\ UNCHANGED << remoteVars, disk, conn, caller, run, now, batch_size,
                  member_count, offset, fetched, summaries, exit_code, signal,
                  ghostVars >>

NextFetch ==
  \/ CallQuery
  \/ FetchAttempt
  \/ GetMemberCount

SpecFetch == InitFetch /\ [][NextFetch]_vars

\* The program and the direct calls together.
SpecAll == (Init \/ InitFetch) /\ [][Next \/ NextFetch]_vars

(***************************************************************************)
(* The program and the direct calls as they go on                          *)
(***************************************************************************)
\* For the steps a run is made of, what the store holds and what labels the
\* concepts have makes no difference: the runs begin without a store file,
\* on the collections of concepts without labels.
InitLive ==
  \/ Init /\ dataset.facts = {} /\ ~disk.exists
  \/ InitFetch

\* A step of the program itself: the process is scheduled as long as it
\* has a statement to execute, and every request to the endpoint and every
\* statement on the store comes to an end, with a result or an error.
\* Calling query_sparql_endpoint again is up to the caller.
ProgramStep ==
  \/ Validate
  \/ (caller = "main" /\ GetMemberCount)
  \/ CreateDatabase
  \/ NextPage
  \/ FetchAttempt
  \/ InsertResults
  \/ Finish

\* One run of the program, or calls of query_sparql_endpoint one after the
\* other.
NextLive ==
  \/ ProgramStep
  \/ CallQuery

SpecLive == InitLive /\ [][NextLive]_vars /\ WF_vars(ProgramStep)

(***************************************************************************)
(* insert_results called directly, page after page, on one connection      *)
(***************************************************************************)
\* One binding with the given values of "concept" and "prefLabel", a key
\* being absent where the value is Unbound.
Record(concept, prefLabel) ==
  LET vals == [concept |-> concept, prefLabel |-> prefLabel]
      dom  == {k \in {"concept", "prefLabel"} : vals[k] # Unbound}
  IN  [k \in dom |-> vals[k]]

\* The records of the pages handed to insert_results: concept c1 without a
\* label, with an empty label, with the label "x" and with the label "y";
\* concept c2 with the label "x"; and a label with an empty and with no
\* concept identifier.
Records ==
  { Record(ConceptUri(1), Unbound), Record(ConceptUri(1), ""),
    Record(ConceptUri(1), "x"), Record(ConceptUri(1), "y"),
    Record(ConceptUri(2), "x"), Record("", "x"), Record(Unbound, "x") }

\* The pages: up to MaxBatch records in any order, repetitions included.
Pages == UNION { [1..n -> Records] : n \in 0..MaxBatch }

\* create_database has returned the connection, on a new store or on one
\* the translation workflow has worked on.
InitInsert ==
  /\ collection_uri = NercUri
  /\ dataset = EmptyDataset
  /\ \E d \in {EmptyDB, PopulatedDB} :
       /\ disk = [exists |-> TRUE, db |-> d]
       /\ conn = [open |-> TRUE, db |-> d]
  /\ batch_size = MaxBatch
  /\ pc = "Idle"
  /\ caller = "direct"
  /\ run = 1
  /\ now = 1
  /\ member_count = 0
  /\ offset = 0
  /\ results = NoResults
  /\ query = NoQuery
  /\ max_retries = DefaultMaxRetries
  /\ base_delay = DefaultBaseDelay
  /\ attempt = 0
  /\ outcomes = <<>>
  /\ sleeps = <<>>
  /\ fetched = <<>>
  /\ count_queries = 0
  /\ count_response = "none"
  /\ validations = 0
  /\ warnings = 0
  /\ summaries = <<>>
  /\ error = "none"
  /\ exit_code = -1
  /\ signal = FALSE
  /\ prevSleeps = 0
  /\ disk0 = disk
  /\ runStartDisk = disk
  /\ prevDone = FALSE
  /\ prevDisk = disk

\* A caller hands a page to insert_results, some time after the page
\* before; prevDisk is the store as the call finds it.
CallInsertResults ==
  /\ caller = "direct"
  /\ pc = "Idle"
  /\ run <= MaxPages
  /\ \E page \in Pages : results' = [ok |-> TRUE, bindings |-> page]
  /\ pc' = "Reconciling"
  /\ run' = run + 1
  /\ now' = now + 1
  /\ summaries' = <<>>
  /\ prevDisk' = disk
  /\ UNCHANGED << remoteVars, disk, conn, caller, batch_size, member_count,
                  offset, fetchVars, fetched, count_queries, count_response, validations,
                  warnings, error, exit_code, signal, prevSleeps, disk0,
                  runStartDisk, prevDone >>

\* The caller goes on after insert_results has returned: the locals of the
\* call are gone, the store is what is left of it.
AfterInsertResults ==
  /\ caller = "direct"
  /\ pc = "Returned"
  /\ summaries # <<>>
  /\ pc' = "Idle"
  /\ results' = NoResults
  /\ summaries' = <<>>
  /\ prevDisk' = disk
  /\ UNCHANGED << remoteVars, disk, conn, caller, run, now, batch_size,
                  member_count, offset, fetchVars, fetched, count_queries, count_response,
                  validations, warnings, error, exit_code, signal, prevSleeps,
                  disk0, runStartDisk, prevDone >>

NextInsert ==
  \/ CallInsertResults
  \/ InsertResults
  \/ AfterInsertResults

SpecInsert == InitInsert /\ [][NextInsert]_vars

(***************************************************************************)
(* Properties                                                              *)
(***************************************************************************)
\* The sum of one count over the summaries printed in this run.
RECURSIVE Total(_, _)
Total(seq, k) == IF seq = <<>> THEN 0 ELSE seq[1][k] + Total(Tail(seq), k)

\* A run that ended Done right after a run that ended Done.
SecondCompleteRun == pc = "Done" /\ run >= 2 /\ prevDone

\* The store without the updated_at of its terms.
WithoutTermUpdatedAt(db) ==
  [db EXCEPT !.terms =
     {[id |-> t.id, uri |-> t.uri, created_at |-> t.created_at] : t \in db.terms}]

\* C1, as stated: a second complete run against the unchanged dataset
\* inserts no Term and no TermField and leaves the store file exactly as the
\* first run left it.
C1_IdempotentIdentical ==
  SecondCompleteRun =>
    /\ Total(summaries, "terms_inserted") = 0
    /\ Total(summaries, "term_fields_inserted") = 0
    /\ disk = prevDisk

\* C1, amended: a second complete run against the unchanged dataset inserts
\* no Term and no TermField and leaves the store file as the first run left
\* it, except for the updated_at of the Terms it fetched again.
C1_Idempotent ==
  SecondCompleteRun =>
    /\ Total(summaries, "terms_inserted") = 0
    /\ Total(summaries, "term_fields_inserted") = 0
    /\ disk.exists = prevDisk.exists
    /\ WithoutTermUpdatedAt(disk.db) = WithoutTermUpdatedAt(prevDisk.db)
    /\ \A t \in disk.db.terms : \A u \in prevDisk.db.terms :
         (t.id = u.id /\ t.updated_at # u.updated_at) =>
           /\ t.updated_at = now
           /\ \E i \in 1..Len(AllRows(dataset)) : AllRows(dataset)[i].concept = t.uri

\* A second complete run of several pages, after a first run that added
\* Terms and TermFields to the store.
C1_Witness ==
  /\ SecondCompleteRun
  /\ Len(summaries) >= 2
  /\ Cardinality(disk.db.terms) > Cardinality(disk0.db.terms)
  /\ Cardinality(disk.db.term_fields) > Cardinality(disk0.db.term_fields)

\* The rows of the workflow tables of a store.
WorkflowTables(db) ==
  << db.translations, db.appeals, db.appeal_messages, db.users >>

\* Every TermField of the initial store that a Translation is attached to is
\* in db as it was, with its Term, and so is the Translation.
TranslatedFieldsKept(db) ==
  \A tr \in disk0.db.translations :
    \A f \in disk0.db.term_fields :
      f.id = tr.term_field_id =>
        /\ tr \in db.translations
        /\ \E g \in db.term_fields :
             /\ g.id = f.id
             /\ g.term_id = f.term_id
             /\ g.field_uri = f.field_uri
             /\ g.field_term = f.field_term
             /\ g.original_value = f.original_value
        /\ \A t \in disk0.db.terms :
             t.id = f.term_id =>
               \E u \in db.terms : u.id = t.id /\ u.uri = t.uri

\* C2: whatever runs follow, and however they end, a TermField that had a
\* Translation before the first run is still in the store with its term,
\* field identifier and original value, its Translation is unchanged, and
\* the rows of translations, appeals, appeal_messages and users are those of
\* the initial store, in the file and in the connection's uncommitted view.
C2_NonDestructive ==
  disk0.exists =>
    /\ disk.exists
    /\ TranslatedFieldsKept(disk.db)
    /\ WorkflowTables(disk.db) = WorkflowTables(disk0.db)
    /\ conn.open =>
         /\ TranslatedFieldsKept(conn.db)
         /\ WorkflowTables(conn.db) = WorkflowTables(disk0.db)

\* A second run on a store with a translated TermField has ended, the runs
\* have added TermFields, the prefLabel fact of the translated TermField was
\* fetched again, and the two runs ended differently.
C2_Witness ==
  /\ disk0.exists
  /\ disk0.db.translations # {}
  /\ run = 2
  /\ pc = "Failed"
  /\ prevDone
  /\ [concept |-> 1, field |-> "prefLabel", value |-> "x"] \in dataset.facts
  /\ Cardinality(disk.db.term_fields) > Cardinality(disk0.db.term_fields)

\* The store file after the first k pages of this run were reconciled and
\* committed, one after the other.
RECURSIVE PagesApplied(_, _)
PagesApplied(db, k) ==
  IF k = 0 THEN db
  ELSE InsertResultsAll(PagesApplied(db, k - 1),
                        PageRows(dataset, batch_size, (k - 1) * batch_size),
                        now).db

\* C3: the store file holds the writes of the pages of this run that were
\* reconciled to their end, all of them and nothing else: when page k fails,
\* at the fetch or at any record, none of its writes is committed and those
\* of pages 0..k-1 are.
C3_PerPageAtomic ==
  /\ disk.db = PagesApplied(runStartDisk.db, Len(summaries))
  /\ pc = "Failed" /\ fetched # <<>> => Len(summaries) = Len(fetched) - 1

\* Page 1 failed at a record after writes of its own, and page 0 had
\* written to the store.
C3_Witness ==
  /\ pc = "Failed"
  /\ error = "sqlite3.Error"
  /\ Len(summaries) = 1
  /\ conn.db # disk.db
  /\ disk.db # runStartDisk.db

\* Every attempt of the current call so far ended with HTTP 502.
AllProxyErrors ==
  \A i \in 1..Len(outcomes) :
    outcomes[i].kind = "HTTPError" /\ outcomes[i].code = 502

\* The sum of the delays slept.
RECURSIVE SumSeq(_)
SumSeq(seq) == IF seq = <<>> THEN 0 ELSE seq[1] + SumSeq(Tail(seq))

\* C4: a call whose every attempt fails with HTTP 502 goes on until it has
\* made max_retries attempts and then raises; it has slept max_retries - 1
\* times by then, base_delay * 2^i the i-th time (i from 0), which is
\* base_delay * (2^(max_retries - 1) - 1) in all, and not after the last
\* attempt.
C4_RetryBound ==
  AllProxyErrors /\ outcomes # <<>> =>
    /\ Len(outcomes) <= max_retries
    /\ (pc = "Raised") = (Len(outcomes) = max_retries)
    /\ pc = "Raised" =>
         /\ error = "Exception"
         /\ Len(sleeps) = max_retries - 1
         /\ \A i \in 0..(max_retries - 2) : sleeps[i + 1] = base_delay * 2^i
         /\ SumSeq(sleeps) = base_delay * (2^(max_retries - 1) - 1)

\* A call with the largest max_retries and base_delay explored has raised
\* after 502 at every attempt.
C4_Witness ==
  /\ pc = "Raised"
  /\ outcomes # <<>>
  /\ AllProxyErrors
  /\ max_retries = MaxRetries
  /\ base_delay = MaxBaseDelay

\* C5: a call that gets HTTP 502 at its first k attempts, k < max_retries,
\* is still trying, at attempt k, whatever the call before it used up; when
\* attempt k + 1 succeeds the call returns that result after exactly k
\* sleeps, one sleep of base_delay when k = 1; and every call begins at
\* attempt 0 with nothing slept.
C5_RetryThenSuccess ==
  /\ pc = "Fetching" /\ outcomes = <<>> => attempt = 0 /\ sleeps = <<>>
  /\ AllProxyErrors /\ outcomes # <<>> /\ Len(outcomes) < max_retries =>
       /\ pc = "Fetching"
       /\ attempt = Len(outcomes)
       /\ Len(sleeps) = Len(outcomes)
  /\ pc = "Returned" /\ outcomes # <<>> =>
       LET k == Len(outcomes) - 1
       IN  /\ outcomes[k + 1].kind = "ok"
           /\ \A i \in 1..k : outcomes[i].kind = "HTTPError" /\ outcomes[i].code = 502
           /\ k < max_retries
           /\ Len(sleeps) = k
           /\ k = 1 => sleeps = << base_delay >>
           /\ results = [ok |-> TRUE,
                         bindings |-> PageRows(dataset, query.limit, query.offset)]

\* A call returns at its last attempt, after a call that had slept as often
\* as its budget let it.
C5_Witness ==
  /\ pc = "Returned"
  /\ max_retries = 3
  /\ Len(sleeps) = 2
  /\ prevSleeps = MaxRetries - 1
  /\ results.bindings # <<>>

\* C6: an attempt that fails with anything but HTTP 502 is the last one of
\* its call: the call raises at once, with no sleep after the failure,
\* however many attempts were left.
C6_NoRetryOfOtherErrors ==
  \A i \in 1..Len(outcomes) :
    (outcomes[i].kind # "ok" /\ ~(outcomes[i].kind = "HTTPError" /\ outcomes[i].code = 502)) =>
      /\ i = Len(outcomes)
      /\ pc = "Raised"
      /\ error = "Exception"
      /\ Len(sleeps) = i - 1
      /\ attempt = i - 1

\* A call with attempts left has raised on an HTTPError other than 502 that
\* followed one 502.
C6_Witness ==
  /\ pc = "Raised"
  /\ Len(outcomes) = 2
  /\ outcomes[2].kind = "HTTPError"
  /\ outcomes[2].code # 502
  /\ max_retries = MaxRetries

\* The pages whose window [offset, offset + limit) holds row j.
PagesHolding(j) ==
  {i \in 1..Len(fetched) :
     fetched[i].offset <= j /\ j < fetched[i].offset + fetched[i].limit}

\* C7: the pages of a run are fetched at the offsets 0, B, 2B, ... below the
\* count N, in this order, each once and with limit B; in a run that ends
\* Done every position of [0, N) lies in the window of exactly one page, and
\* the windows begin at 0 and follow each other without a gap; with N = 0 no
\* page is fetched.
C7_Partition ==
  /\ \A i \in 1..Len(fetched) :
       /\ fetched[i].limit = batch_size
       /\ fetched[i].offset = (i - 1) * batch_size
       /\ fetched[i].offset < member_count
  /\ pc = "Done" =>
       /\ member_count = MemberCount(dataset)
       /\ \A j \in 0..(member_count - 1) : Cardinality(PagesHolding(j)) = 1
       /\ Len(fetched) * batch_size >= member_count
       /\ member_count = 0 => fetched = <<>>

\* A run over a count that is no multiple of the batch size has ended Done
\* after two pages.
C7_Witness ==
  /\ pc = "Done"
  /\ member_count = 3
  /\ batch_size = 2
  /\ Len(fetched) = 2

\* C8, as stated: after a run that ended Done every member concept of the
\* collection has a Term in the store, and every label fact the remote
\* dataset holds for it has a TermField.
C8_CompleteHarvest ==
  pc = "Done" =>
    \A c \in dataset.members :
      \E t \in disk.db.terms :
        /\ t.uri = ConceptUri(c)
        /\ \A f \in dataset.facts :
             f.concept = c =>
               \E g \in disk.db.term_fields :
                 /\ g.term_id = t.id
                 /\ \E i \in 1..Len(FIELD_MAPPINGS) :
                      /\ FIELD_MAPPINGS[i].name = f.field
                      /\ FIELD_MAPPINGS[i].field_uri = g.field_uri
                 /\ g.original_value = f.value

\* Whether text s begins with text p.
BeginsWith(s, p) ==
  /\ Len(s) >= Len(p)
  /\ \A i \in 1..Len(p) : s[i] = p[i]

\* The identifier begins with http:// or https://.
WellFormed(u) ==
  \/ BeginsWith(u, <<"h", "t", "t", "p", ":", "/", "/">>)
  \/ BeginsWith(u, <<"h", "t", "t", "p", "s", ":", "/", "/">>)

\* The identifier holds the text vocab.nerc.ac.uk.
NamesNercHost(u) ==
  \E i \in 0..Len(u) :
    /\ i + Len(HostSub) <= Len(u)
    /\ \A k \in 1..Len(HostSub) : u[i + k] = HostSub[k]

\* C9: once the identifier has been validated, the run has failed with
\* ValueError exactly if the identifier begins with neither http:// nor
\* https://; every validation of an accepted identifier without the host
\* vocab.nerc.ac.uk has printed the warning, and no other validation has;
\* and a warning never ends the run.
C9_ValidationBoundary ==
  validations >= 1 =>
    /\ (error = "ValueError") = ~WellFormed(collection_uri)
    /\ ~WellFormed(collection_uri) => pc = "Failed" /\ warnings = 0
    /\ WellFormed(collection_uri) =>
         warnings = (IF NamesNercHost(collection_uri) THEN 0 ELSE validations)

\* The run for https://example.org/foo has ended Done, with warnings.
C9_Witness ==
  /\ collection_uri = ForeignUri
  /\ pc = "Done"
  /\ warnings >= 1

\* C10: with an identifier that begins with neither http:// nor https://,
\* main goes from Validating to Failed with ValueError and exit code 1, and a
\* direct call of get_member_count or query_sparql_endpoint raises
\* ValueError; no count query and no page query is sent, the store is
\* neither created nor opened, and no completion line is written.
C10_ValidationFirst ==
  ~WellFormed(collection_uri) =>
    /\ count_queries = 0
    /\ outcomes = <<>>
    /\ fetched = <<>>
    /\ member_count = 0
    /\ results = NoResults
    /\ ~conn.open
    /\ disk = disk0
    /\ ~signal
    /\ caller = "main" =>
         /\ pc \in {"Validating", "Failed"}
         /\ pc = "Failed" => error = "ValueError" /\ exit_code = 1 /\ validations = 1
    /\ caller = "direct" =>
         /\ pc \in {"Idle", "Raised"}
         /\ pc = "Raised" => error = "ValueError"

\* The run for ftp://vocab.nerc.ac.uk/ on an existing store has failed.
C10_Witness ==
  /\ collection_uri = FtpNercUri
  /\ pc = "Failed"
  /\ disk0.exists

\* A direct call of insert_results has returned: the store before is
\* prevDisk.db, the page results.bindings, the counts summaries[1].
PageReconciled ==
  caller = "direct" /\ pc = "Returned" /\ Len(summaries) = 1

\* The distinct non-empty concept identifiers of a page.
PageIdentifiers(page) ==
  {page[i].concept : i \in {j \in 1..Len(page) : "concept" \in DOMAIN page[j]}}
    \ {""}

\* The record of the concept c1 with its prefLabel "x".
OneRecord == [concept |-> ConceptUri(1), prefLabel |-> "x"]

\* The TermFields of db that hold value as the prefLabel of the Term uri.
PrefLabelFields(db, uri, value) ==
  {f \in db.term_fields :
     /\ f.original_value = value
     /\ f.field_term = "skos:prefLabel"
     /\ \E t \in db.terms : t.id = f.term_id /\ t.uri = uri}

\* C11: a call of insert_results that returns has counted every distinct
\* non-empty concept identifier of its page once, as inserted when the
\* store held no Term of that URI before the page and as updated when it
\* did; terms inserted is the number of rows terms has gained and term
\* fields inserted the number of rows term_fields has gained; a page of the
\* one record (c1, prefLabel "x") counts 1, 0, 1 on a store without the Term
\* and 0, 1, 0 on a store that holds the Term and the TermField.
C11_ReconcilerCounts ==
  PageReconciled =>
    LET before == prevDisk.db
        after  == disk.db
        page   == results.bindings
        ids    == PageIdentifiers(page)
        s      == summaries[1]
    IN  /\ s.terms_inserted = Cardinality({u \in ids : TermsWithUri(before, u) = {}})
        /\ s.terms_updated = Cardinality({u \in ids : TermsWithUri(before, u) # {}})
        /\ s.terms_inserted = Cardinality(after.terms) - Cardinality(before.terms)
        /\ s.term_fields_inserted =
             Cardinality(after.term_fields) - Cardinality(before.term_fields)
        /\ before.term_fields \subseteq after.term_fields
        /\ page = << OneRecord >> =>
             /\ TermsWithUri(before, ConceptUri(1)) = {} =>
                  s = [terms_inserted |-> 1, terms_updated |-> 0,
                       term_fields_inserted |-> 1]
             /\ PrefLabelFields(before, ConceptUri(1), "x") # {} =>
                  s = [terms_inserted |-> 0, terms_updated |-> 1,
                       term_fields_inserted |-> 0]

\* The one record was handed over again, to the store that a first page
\* had put its Term and TermField in, and nothing was inserted.
C11_Witness ==
  /\ PageReconciled
  /\ disk0.db = EmptyDB
  /\ run = 3
  /\ results.bindings = << OneRecord >>
  /\ Cardinality(prevDisk.db.terms) = 1
  /\ Cardinality(prevDisk.db.term_fields) = 1
  /\ summaries[1] = [terms_inserted |-> 0, terms_updated |-> 1,
                     term_fields_inserted |-> 0]

\* The concept identifiers of the rows of the pages fetched in this run.
FetchedIdentifiers ==
  UNION { PageIdentifiers(PageRows(dataset, fetched[i].limit, fetched[i].offset)) :
            i \in 1..Len(fetched) }

\* C12, as stated: when a run ends Done, the sums of the counts printed for
\* its pages are the figures of the run: terms inserted is the number of
\* Terms the run has added to the store, and terms updated is the number of
\* Terms that were in the store before the run and that the run has met,
\* also when the rows of one concept lie on two pages.
C12_AggregateSummary ==
  pc = "Done" =>
    /\ Len(summaries) = Len(fetched)
    /\ Total(summaries, "terms_inserted") =
         Cardinality(disk.db.terms) - Cardinality(runStartDisk.db.terms)
    /\ Total(summaries, "term_fields_inserted") =
         Cardinality(disk.db.term_fields) - Cardinality(runStartDisk.db.term_fields)
    /\ Total(summaries, "terms_updated") =
         Cardinality({t \in runStartDisk.db.terms : t.uri \in FetchedIdentifiers})

\* No two rows of terms share a URI or an id, and no two rows of
\* term_fields share an id or the triple (term_id, field_uri,
\* original_value).
UniqueRows(db) ==
  /\ \A t, u \in db.terms : (t.uri = u.uri \/ t.id = u.id) => t = u
  /\ \A f, g \in db.term_fields :
       \/ f.id = g.id
       \/ (f.term_id = g.term_id /\ f.field_uri = g.field_uri
             /\ f.original_value = g.original_value)
       => f = g

\* The records of a page that state a fact: a concept identifier and a
\* prefLabel, neither empty.
FactRecords(page) ==
  {i \in 1..Len(page) :
     /\ "concept" \in DOMAIN page[i] /\ page[i].concept # ""
     /\ "prefLabel" \in DOMAIN page[i] /\ page[i].prefLabel # ""}

\* C13: whatever pages have been reconciled, completely or in part, no two
\* Terms share a URI and no two TermFields share their (term, field
\* identifier, original value), in the store file and in the connection's
\* view; and a record whose fact the store holds already leaves the row of
\* the fact as it was and adds none: a page of nothing but such records
\* leaves term_fields as it was and counts 0 new TermFields.
C13_Uniqueness ==
  /\ UniqueRows(disk.db)
  /\ UniqueRows(conn.db)
  /\ PageReconciled =>
       LET before == prevDisk.db
           after  == disk.db
           page   == results.bindings
           known  == {i \in FactRecords(page) :
                        PrefLabelFields(before, page[i].concept, page[i].prefLabel) # {}}
       IN  /\ \A i \in known :
                PrefLabelFields(after, page[i].concept, page[i].prefLabel) =
                  PrefLabelFields(before, page[i].concept, page[i].prefLabel)
           /\ known = FactRecords(page) =>
                /\ after.term_fields = before.term_fields
                /\ summaries[1].term_fields_inserted = 0

\* A page that states the fact of the translated TermField, and states it
\* again, has been reconciled after another page.
C13_Witness ==
  /\ PageReconciled
  /\ disk0.db = PopulatedDB
  /\ Len(results.bindings) >= 2
  /\ \A i \in 1..Len(results.bindings) : results.bindings[i] = OneRecord
  /\ summaries[1].term_fields_inserted = 0
  /\ run = 3

\* The TermFields of db that hold a prefLabel of the Term uri.
PrefLabelsOf(db, uri) ==
  {f \in db.term_fields :
     /\ f.field_term = "skos:prefLabel"
     /\ \E t \in db.terms : t.id = f.term_id /\ t.uri = uri}

\* C14: every TermField of the store before the first page is in the store
\* with all its columns, and its Translations with it, whatever pages have
\* followed; and a page that returns, for a Term that has a prefLabel
\* stored, a prefLabel value the store does not hold leaves every row that
\* was there as it was, with its id and original_value, and has a new row
\* for the new value, under a new id.
C14_ChangedFactNewRow ==
  /\ disk0.db.term_fields \subseteq disk.db.term_fields
  /\ disk0.db.term_fields \subseteq conn.db.term_fields
  /\ disk.db.translations = disk0.db.translations
  /\ conn.db.translations = disk0.db.translations
  /\ PageReconciled =>
       LET before == prevDisk.db
           after  == disk.db
           page   == results.bindings
       IN  /\ before.term_fields \subseteq after.term_fields
           /\ \A i \in FactRecords(page) :
                LET old == PrefLabelsOf(before, page[i].concept)
                    new == PrefLabelFields(after, page[i].concept, page[i].prefLabel)
                IN  /\ Cardinality(new) = 1
                    /\ old # {} /\ (\A f \in old : f.original_value # page[i].prefLabel) =>
                         \A g \in new :
                           /\ g \notin before.term_fields
                           /\ \A f \in before.term_fields : f.id # g.id
                           /\ \A f \in old : f.term_id = g.term_id /\ f \in after.term_fields

\* The store held the prefLabel "x" of c1, with its Translation; a page
\* has returned the prefLabel "y" for c1, and the store holds both rows.
C14_Witness ==
  /\ PageReconciled
  /\ disk0.db = PopulatedDB
  /\ run = 2
  /\ results.bindings = << Record(ConceptUri(1), "y") >>
  /\ PrefLabelFields(disk.db, ConceptUri(1), "x") = PopulatedDB.term_fields
  /\ PrefLabelFields(disk.db, ConceptUri(1), "y") # {}
  /\ \E tr \in disk.db.translations : tr.term_field_id = 1

\* db holds every row that before holds: the rows of term_fields as they
\* were, and the rows of terms with their id, uri and created_at, and with
\* their updated_at unless the Term is one of ids, whose updated_at may be
\* ts.
GrownFrom(before, db, ids, ts) ==
  /\ before.term_fields \subseteq db.term_fields
  /\ \A t \in before.terms :
       \/ t \in db.terms
       \/ /\ t.uri \in ids
          /\ [t EXCEPT !.updated_at = ts] \in db.terms
  /\ Cardinality(db.terms) >= Cardinality(before.terms)

\* C15: a call of insert_results, at its end and at every record it may be
\* interrupted at, has deleted no Term and no TermField of the store it
\* found, whatever its page lacks (a concept, a label, the value of a
\* label), and has changed nothing of a Term that was there but the
\* updated_at of the Terms its page names; and the store holds every
\* TermField, and the id and URI of every Term, of the store before the
\* first page.
C15_AdditiveMerge ==
  LET ids == PageIdentifiers(results.bindings)
  IN  /\ GrownFrom(prevDisk.db, disk.db, ids, now)
      /\ GrownFrom(prevDisk.db, conn.db, ids, now)
      /\ GrownFrom(disk.db, conn.db, ids, now)
      /\ \A d \in {disk.db, conn.db} :
           /\ disk0.db.term_fields \subseteq d.term_fields
           /\ \A t \in disk0.db.terms :
                \E u \in d.terms :
                  u.id = t.id /\ u.uri = t.uri /\ u.created_at = t.created_at

\* After a page that gave c1 a second prefLabel, a page that names c1
\* without a prefLabel, or with an empty one, and does not name c2 has been
\* reconciled: c1 was touched and has kept both prefLabels.
C15_Witness ==
  /\ PageReconciled
  /\ disk0.db = PopulatedDB
  /\ run = 3
  /\ results.bindings = << Record(ConceptUri(1), Unbound), Record(ConceptUri(1), "") >>
  /\ Cardinality(PrefLabelsOf(disk.db, ConceptUri(1))) = 2
  /\ \E t \in disk.db.terms : t.uri = ConceptUri(1) /\ t.id = 1 /\ t.updated_at = now
  /\ summaries[1] = [terms_inserted |-> 0, terms_updated |-> 1,
                     term_fields_inserted |-> 0]

\* The record has a concept identifier that is not empty.
Identified(r) == "concept" \in DOMAIN r /\ r.concept # ""

\* C16: the records of a page that have no concept identifier, or an empty
\* one, leave no trace: the store holds no Term of the empty URI; a page of
\* nothing but such records leaves the store as it was and counts 0, 0, 0;
\* the counts of terms are those of the identifiers of the other records;
\* and every other record of the page, before or after such a record, has
\* its Term and its prefLabel in the committed store.
C16_EmptyIdentifierSkipped ==
  /\ \A d \in {disk.db, conn.db} : \A t \in d.terms : t.uri # ""
  /\ PageReconciled =>
       LET before == prevDisk.db
           after  == disk.db
           page   == results.bindings
           s      == summaries[1]
       IN  /\ (\A i \in 1..Len(page) : ~Identified(page[i])) =>
                /\ after = before
                /\ s = [terms_inserted |-> 0, terms_updated |-> 0,
                         term_fields_inserted |-> 0]
           /\ s.terms_inserted + s.terms_updated =
                Cardinality({page[i].concept : i \in {j \in 1..Len(page) : Identified(page[j])}})
           /\ s.term_fields_inserted <= Cardinality(FactRecords(page))
           /\ \A i \in 1..Len(page) :
                Identified(page[i]) =>
                  /\ \E t \in after.terms : t.uri = page[i].concept /\ t.updated_at = now
                  /\ i \in FactRecords(page) =>
                       PrefLabelFields(after, page[i].concept, page[i].prefLabel) # {}
           /\ Cardinality(after.term_fields) - Cardinality(before.term_fields)
                <= Cardinality(FactRecords(page))

\* A page with a record without identifier, then a record of the new
\* concept c2, has been reconciled: c2 and its prefLabel were inserted.
C16_Witness ==
  /\ PageReconciled
  /\ Len(results.bindings) = 2
  /\ results.bindings[1] \in {Record("", "x"), Record(Unbound, "x")}
  /\ results.bindings[2] = Record(ConceptUri(2), "x")
  /\ summaries[1] = [terms_inserted |-> 1, terms_updated |-> 0,
                     term_fields_inserted |-> 1]
  /\ PrefLabelFields(disk.db, ConceptUri(2), "x") # {}

\* C17: in a run, at most one page is fetched and not yet reconciled; while
\* a page is fetched, at its first attempt and at every retry, every page
\* fetched before it has been reconciled and committed and the connection
\* holds no write that the store file does not; and the page that is
\* reconciled is the page fetched last.
C17_SequentialPages ==
  caller = "main" =>
    /\ Len(fetched) - Len(summaries) \in {0, 1}
    /\ pc = "Fetching" =>
         /\ Len(summaries) = Len(fetched) - 1
         /\ conn.db = disk.db
         /\ disk.db = PagesApplied(runStartDisk.db, Len(fetched) - 1)
         /\ query = fetched[Len(fetched)]
         /\ query.offset = offset
    /\ pc = "Reconciling" =>
         /\ Len(summaries) = Len(fetched) - 1
         /\ conn.db = disk.db
         /\ results.bindings =
              PageRows(dataset, fetched[Len(fetched)].limit, fetched[Len(fetched)].offset)
    /\ pc \in {"Paging", "Done"} =>
         /\ Len(summaries) = Len(fetched)
         /\ conn.db = disk.db

\* The second page of a run is at its last attempt, after two retries, and
\* the first page has written to the store.
C17_Witness ==
  /\ pc = "Fetching"
  /\ Len(fetched) = 2
  /\ attempt = DefaultMaxRetries - 1
  /\ disk.db # runStartDisk.db
  /\ Len(summaries) = 1

\* What the state of a run says of its errors, its exit code and its
\* completion line.
ErrorsEndTheRun ==
  caller = "main" =>
    /\ (error # "none") = (pc = "Failed")
    /\ (pc = "Failed") = (exit_code = 1)
    /\ pc = "Failed" =>
         /\ ~signal
         /\ fetched # <<>> =>
              /\ Len(summaries) = Len(fetched) - 1
              /\ \A i, j \in 1..Len(fetched) :
                   fetched[i].offset = fetched[j].offset => i = j
         /\ error \in {"Exception", "sqlite3.Error"} /\ fetched # <<>> =>
              Len(outcomes) <= DefaultMaxRetries
    /\ (exit_code = 0) = (pc = "Done")
    /\ signal => pc = "Done"
    /\ pc = "Done" =>
         /\ signal = GithubOutputSet
         /\ error = "none"
         /\ Len(summaries) = Len(fetched)
         /\ Len(fetched) * batch_size >= member_count
         /\ conn.db = disk.db
    /\ exit_code \in {-1, 0, 1}

\* C18: an error of the endpoint or of the database, at any page, ends the
\* run in Failed with exit code 1 and without the completion line, the
\* failed page being the last one fetched and fetched once; a run in
\* Failed takes no further step (what follows is a new invocation); exit
\* code 0 and the completion line come only with Done, after every page
\* was fetched and committed.
C18_FailedTerminal ==
  /\ []ErrorsEndTheRun
  /\ [][pc = "Failed" => run' = run + 1 /\ pc' = "Validating"]_vars

\* The run has failed at its second page of three, by an error of the
\* endpoint after a retry.
C18_Witness ==
  /\ pc = "Failed"
  /\ error = "Exception"
  /\ member_count = 3
  /\ batch_size = 1
  /\ Len(fetched) = 2
  /\ Len(outcomes) = 2
  /\ exit_code = 1

\* The answers to the count query that carry no count.
CountFailures == CountResponses \ {"count"}

\* C19: get_member_count sends the count query once: after its answer,
\* whatever it is, one count query was sent, no attempt was counted and
\* nothing was slept; the answers without a count (a failed request, HTTP
\* 502 included, a result without bindings, a first binding without
\* "count") end the call with Exception, and end a run of main in Failed
\* with exit code 1, no connection to the store, the store file as it was,
\* and no page fetched; the answer with the count gives the member count.
C19_CountingFailure ==
  /\ count_queries <= 1
  /\ count_response # "none" =>
       /\ count_queries = 1
       /\ pc # "Counting"
  /\ count_response \in CountFailures =>
       /\ error = "Exception"
       /\ attempt = 0
       /\ outcomes = <<>>
       /\ sleeps = <<>>
       /\ fetched = <<>>
       /\ pc = (IF caller = "main" THEN "Failed" ELSE "Raised")
       /\ caller = "main" =>
            /\ exit_code = 1
            /\ ~conn.open
            /\ disk = runStartDisk
            /\ member_count = 0
            /\ ~signal
            /\ summaries = <<>>
  /\ count_response = "count" =>
       /\ member_count = MemberCount(dataset)
       /\ caller = "direct" => pc = "Returned" /\ error = "none"
  /\ caller = "main" /\ pc \in {"CreatingDb", "Paging", "Fetching", "Reconciling", "Done"} =>
       count_response = "count"
  /\ caller = "main" /\ (conn.open \/ fetched # <<>>) => count_response = "count"

\* The second run on a store that the first run has filled has failed at
\* the count query, by HTTP 502.
C19_Witness ==
  /\ caller = "main"
  /\ pc = "Failed"
  /\ count_response = "HTTPError 502"
  /\ run = 2
  /\ prevDone
  /\ disk.db.terms # {}
  /\ ~disk0.exists

\* The bounds of a run and of a call: no more pages than ceil(N / B), no
\* more attempts than max_retries, an attempt left while the call goes on,
\* and a result in the hands of whoever query_sparql_endpoint returned to.
WithinBudget ==
  /\ Len(fetched) <= (member_count + batch_size - 1) \div batch_size
  /\ Len(outcomes) <= max_retries
  /\ Len(sleeps) <= max_retries - 1
  /\ pc = "Fetching" => attempt < max_retries /\ attempt = Len(outcomes)
  /\ pc = "Reconciling" => results.ok
  /\ pc = "Returned" /\ count_response = "none" => results.ok /\ outcomes # <<>>

\* C20: a run makes at most ceil(N / B) page fetches and a call of
\* query_sparql_endpoint at most max_retries attempts; a call returns the
\* result of the endpoint or raises, and never returns None; every run
\* that has begun reaches Done or Failed, and every call of
\* query_sparql_endpoint that has begun returns or raises.
C20_Termination ==
  /\ []WithinBudget
  /\ (caller = "main" /\ pc \notin {"Done", "Failed"}) ~> (pc \in {"Done", "Failed"})
  /\ (pc = "Fetching") ~> (pc \in {"Reconciling", "Failed", "Returned", "Raised"})

\* The second and last page of a collection of three members, fetched two
\* by two, has come at the last attempt of its call.
C20_Witness ==
  /\ pc = "Reconciling"
  /\ member_count = 3
  /\ batch_size = 2
  /\ Len(fetched) = 2
  /\ Len(outcomes) = DefaultMaxRetries
  /\ results.ok

=============================================================================
